---- MODULE Spec2Model ----
(***************************************************************************)
(* Bodo getting-started tutorial (bodo_getting_started.ipynb).             *)
(*                                                                         *)
(* The notebook runs one small pandas program, `test`, first as plain      *)
(* pandas in the local kernel and then as a @bodo.jit function on the MPI  *)
(* engines (%%px --block): every engine runs the same cell, the jit        *)
(* function reads its chunk of example1.pq, rows are shuffled by group     *)
(* key, sums are taken per group and the max is reduced across engines.    *)
(* Spec models one %%px cell run on nprocs engines, step by step per       *)
(* engine.  The dataset is the one the data-generation cell writes,        *)
(* scaled down.                                                            *)
(***************************************************************************)
EXTENDS Integers, Sequences, FiniteSets, TLC

\* Bounds of the model (the notebook uses 4 engines, 20_000_000 rows, 30 groups).
MaxProcs == 3
MaxRows == 4
MaxGroups == 2

VARIABLES
    nprocs,      \* number of MPI engines the cell runs on
    NUM_ROWS,    \* rows of example1.pq
    NUM_GROUPS,  \* distinct values of column A
    hash,        \* shuffle destination: group key in the data -> rank
    prog,        \* the %%px cell being run (its jit function and trailing code)
    pc,          \* per engine: position in the cell
    df,          \* per engine: rows held after pd.read_parquet
    sent,        \* engines that have sent their shuffle buffers
    inbox,       \* per engine: rows received in the shuffle
    df2,         \* per engine: groupby result held, a set of <<key, sum>>
    contrib,     \* per engine: its contribution to the max reduction
    contributed, \* engines that have contributed to the reduction
    m,           \* per engine: <<>> or <<m>>, the reduced max
    ret,         \* per engine: <<>> or <<value returned by test()>>
    stdout,      \* per engine: sequence of printed values
    stderr,      \* per engine: sequence of warnings
    written,     \* per engine: rows it wrote to example1-df2.pq
    pos,         \* notebook: number of code cells run so far, in document order
    bound,       \* notebook: per namespace, name -> code cell whose jit function it is bound to
    trace,       \* notebook: per jit function, the dispatcher's events over its calls
    produced,    \* notebook: per code cell run, the output kinds its jit call gave
    shown,       \* notebook: per code cell run, <<>> or <<value displayed as its result>>
    extra,       \* notebook: calls made besides the one each cell makes
    imported,    \* notebook: per namespace, the module names imported so far
    files,       \* notebook: the files written so far
    engines,     \* notebook: whether the MPI engines have been started
    missing      \* notebook: <<cell, what>> for each name, file or engine a
                 \*           cell run so far used and did not find

engineVars == <<nprocs, NUM_ROWS, NUM_GROUPS, hash, prog, pc, df, sent, inbox, df2,
                contrib, contributed, m, ret, stdout, stderr, written>>

notebookVars == <<pos, bound, trace, produced, shown, extra,
                  imported, files, engines, missing>>

vars == <<engineVars, notebookVars>>

Procs == 0 .. (nprocs - 1)

\* the ranks an engine can have, whatever nprocs is
Ranks == 0 .. (MaxProcs - 1)

----------------------------------------------------------------------------
(* The dataset: df = DataFrame({"A": arange(NUM_ROWS) % NUM_GROUPS,        *)
(*                              "B": arange(NUM_ROWS)})                     *)

Row(i, g) == [idx |-> i, A |-> i % g, B |-> i]

GenData(n, g) == [k \in 1 .. n |-> Row(k - 1, g)]

Dataset == GenData(NUM_ROWS, NUM_GROUPS)

SeqToSet(s) == {s[k] : k \in 1 .. Len(s)}

----------------------------------------------------------------------------
(* Sequential pandas: the `test` of the plain-pandas cell.                 *)

\* df.groupby("A").sum(): one pass over the rows, accumulating per key.
RECURSIVE PandasGroupSum(_, _)
PandasGroupSum(rows, acc) ==
    IF rows = <<>> THEN acc
    ELSE LET r == Head(rows)
             a == IF r.A \in DOMAIN acc
                    THEN [acc EXCEPT ![r.A] = @ + r.B]
                    ELSE [k \in DOMAIN acc \cup {r.A} |->
                             IF k = r.A THEN r.B ELSE acc[k]]
         IN PandasGroupSum(Tail(rows), a)

EmptyFrame == [k \in {} |-> 0]

PandasGroupBy(rows) == PandasGroupSum(rows, EmptyFrame)

\* df2.B.max()
PandasMax(frame) ==
    CHOOSE v \in {frame[k] : k \in DOMAIN frame} :
        \A k \in DOMAIN frame : frame[k] <= v

PandasTest == PandasMax(PandasGroupBy(Dataset))

\* a pandas frame as the set of its <<key, sum>> rows (order dropped)
FrameRows(frame) == {<<k, frame[k]>> : k \in DOMAIN frame}

----------------------------------------------------------------------------
(* The cells that define a @bodo.jit function and call it.                 *)
(*   name       the function's name                                         *)
(*   body       what it computes: "read" (read_parquet only), "groupby"    *)
(*              (read, groupby("A").sum()), "max" (.. and df2.B.max()),     *)
(*              "agg_mean" (groupby.agg of UDFs, mean), "calc_pi",          *)
(*              "frame_groupby" (groupby of an inline DataFrame)            *)
(*   by         where groupby's key list comes from: a "literal", an        *)
(*              "argument" of the function, "computed" inside it, "none"    *)
(*   sink       statement inside the function that consumes the value       *)
(*   returns    variable the function returns                               *)
(*   distributed  the jit decorator's distributed=[...] flag                *)
(*   outside    regular Python after the call: "print" of the returned      *)
(*              value, "display" (the call is the cell's last expression),  *)
(*              "assign" (result = test()), "none"                          *)

CellPrint ==
    [name |-> "test", body |-> "max", by |-> "literal", sink |-> "print",
     returns |-> "none", distributed |-> {}, outside |-> "none"]

CellReturnM ==
    [name |-> "test", body |-> "max", by |-> "literal", sink |-> "none",
     returns |-> "m", distributed |-> {}, outside |-> "print"]

CellParallelPrint ==
    [name |-> "test", body |-> "max", by |-> "literal", sink |-> "parallel_print",
     returns |-> "none", distributed |-> {}, outside |-> "none"]

CellPrintDf ==
    [name |-> "test", body |-> "read", by |-> "none", sink |-> "print_df",
     returns |-> "none", distributed |-> {}, outside |-> "none"]

CellWrite ==
    [name |-> "test", body |-> "groupby", by |-> "literal", sink |-> "to_parquet",
     returns |-> "none", distributed |-> {}, outside |-> "none"]

CellReturnDf2 ==
    [name |-> "test", body |-> "groupby", by |-> "literal", sink |-> "none",
     returns |-> "df2", distributed |-> {}, outside |-> "print"]

CellReturnDf2Dist ==
    [name |-> "test", body |-> "groupby", by |-> "literal", sink |-> "none",
     returns |-> "df2", distributed |-> {"df2"}, outside |-> "print"]

\* the benchmark cell: timers inside test, result = test()
CellTimed ==
    [name |-> "test", body |-> "max", by |-> "literal", sink |-> "print",
     returns |-> "m", distributed |-> {}, outside |-> "assign"]

\* the UDF cells: groupby("A")["B"].agg(lambdas), m = df2.mean()
CellUdf ==
    [name |-> "test", body |-> "agg_mean", by |-> "literal", sink |-> "print",
     returns |-> "m", distributed |-> {}, outside |-> "assign"]

CellCalcPi ==
    [name |-> "calc_pi", body |-> "calc_pi", by |-> "none", sink |-> "print",
     returns |-> "none", distributed |-> {}, outside |-> "none"]

\* f(a, i): column_list = a[:i] inside the function
CellFComputed ==
    [name |-> "f", body |-> "frame_groupby", by |-> "computed", sink |-> "none",
     returns |-> "df2", distributed |-> {}, outside |-> "display"]

\* f(column_list): the key list is computed in regular Python and passed in
CellFArgument ==
    [name |-> "f", body |-> "frame_groupby", by |-> "argument", sink |-> "none",
     returns |-> "df2", distributed |-> {}, outside |-> "display"]

\* the cells Spec runs on the engines: the variants of `test` over example1.pq
Programs == {CellPrint, CellReturnM, CellParallelPrint, CellPrintDf, CellWrite,
             CellReturnDf2, CellReturnDf2Dist}

----------------------------------------------------------------------------
(* Distributed analysis: return values are replicated unless flagged, and   *)
(* a variable's distribution is forced on the variables it is computed      *)
(* from.                                                                    *)

\* variant: the default for return values is ignored, everything is distributed
Df2DistFlagless(p) == "1D"

Df2Dist(p) ==
    IF p.returns = "df2" /\ "df2" \notin p.distributed THEN "REP" ELSE "1D"

\* variant: df's distribution is not tied to that of df2, computed from it
DfDistUnlinked(p) == "1D"

DfDist(p) ==
    IF p.body \in {"groupby", "max", "agg_mean", "frame_groupby"}
    THEN Df2Dist(p) ELSE "1D"

\* m = df2.B.max() is a reduction: a scalar, the same on every engine
MDist(p) == "REP"

NoParallelism(p) == DfDist(p) = "REP"

Warning == "BodoWarning: No parallelism found"

\* the warning is reported on engine 0
WarnsOn(p) == IF NoParallelism(p) THEN {0} ELSE {}

----------------------------------------------------------------------------
(* Parallel read: engine r of n holds one contiguous block of the rows.    *)

Min(a, b) == IF a < b THEN a ELSE b

\* variant: equal blocks, the remainder total % n dropped
ChunkStartNoRemainder(total, n, r) == r * (total \div n)

ChunkStart(total, n, r) == r * (total \div n) + Min(r, total % n)

ChunkRows(rows, n, r) ==
    SubSeq(rows, ChunkStart(Len(rows), n, r) + 1, ChunkStart(Len(rows), n, r + 1))

ReadParquetRows(p, r) ==
    IF DfDist(p) = "REP" THEN Dataset ELSE ChunkRows(Dataset, nprocs, r)

----------------------------------------------------------------------------
(* Shuffle and per-engine aggregation.                                      *)

\* variant: rows are dealt out by row number, not by key
ShuffleDestByRow(row) == row.idx % nprocs

\* destination of a row in the groupby shuffle: by its group key
ShuffleDest(row) == hash[row.A]

RECURSIVE SumCol(_, _)
SumCol(S, col) ==
    IF S = {} THEN 0
    ELSE LET x == CHOOSE x \in S : TRUE IN x[col] + SumCol(S \ {x}, col)

\* groupby(key).sum() over a set of rows: <<key value, sum of column val>>
GroupSumsBy(S, key, val) ==
    {<<k, SumCol({x \in S : x[key] = k}, val)>> : k \in {x[key] : x \in S}}

\* groupby("A").sum() over the rows an engine holds
GroupSums(S) == GroupSumsBy(S, "A", "B")

Keys(frame) == {kv[1] : kv \in frame}

\* df2.B.max() over the engine's part: <<>> when it holds no group
LocalMax(frame) ==
    IF frame = {} THEN <<>>
    ELSE <<CHOOSE v \in {kv[2] : kv \in frame} : \A kv \in frame : kv[2] <= v>>

\* variant: no reduction, engine 0's local max is taken
ReduceMaxRoot(c) == c[0]

\* max reduction over the contributions of all engines
ReduceMax(c) ==
    LET vals == {c[r][1] : r \in {q \in DOMAIN c : c[q] # <<>>}}
    IN IF vals = {} THEN <<>>
       ELSE <<CHOOSE v \in vals : \A w \in vals : w <= v>>

\* variant: print inside a jit function prints on every engine
PrintsOnAll(dist) == Procs

\* engines on which print(x) inside a jit function prints, by x's distribution
PrintsOn(dist) == IF dist = "REP" THEN {0} ELSE Procs

----------------------------------------------------------------------------
AfterGroupBy(p) == IF p.body = "max" THEN "max" ELSE
                   IF p.sink = "none" THEN "return" ELSE "sink"

\* after the sink statement: the return statement, if the function has one
AfterSink(p) == IF p.returns = "none" THEN "done" ELSE "return"

AfterReturn(p) == IF p.outside = "print" THEN "outside" ELSE "done"

\* the notebook part of the state, before any cell has run
NotebookIdle ==
    /\ pos = 0
    /\ bound = [ns \in {"local", "engines"} |-> [n \in {"test", "calc_pi", "f"} |-> 0]]
    /\ trace = <<>>
    /\ produced = <<>>
    /\ shown = <<>>
    /\ extra = 0
    /\ imported = [ns \in {"local", "engines"} |-> {}]
    /\ files = {}
    /\ engines = FALSE
    /\ missing = {}

Init ==
    /\ NotebookIdle
    /\ nprocs \in 1 .. MaxProcs
    /\ NUM_ROWS \in 1 .. MaxRows
    /\ NUM_GROUPS \in 1 .. MaxGroups
    /\ hash \in [{row.A : row \in SeqToSet(Dataset)} -> Procs]
    /\ prog \in Programs
    /\ pc = [r \in Procs |-> "call"]
    /\ df = [r \in Procs |-> <<>>]
    /\ sent = {}
    /\ inbox = [r \in Procs |-> {}]
    /\ df2 = [r \in Procs |-> {}]
    /\ contrib = [r \in Procs |-> <<>>]
    /\ contributed = {}
    /\ m = [r \in Procs |-> <<>>]
    /\ ret = [r \in Procs |-> <<>>]
    /\ stdout = [r \in Procs |-> <<>>]
    /\ stderr = [r \in Procs |-> <<>>]
    /\ written = [r \in Procs |-> {}]

\* test(): the first call compiles the function; distributed analysis runs
JitCall(r) ==
    /\ r \in Procs
    /\ pc[r] = "call"
    /\ stderr' = [stderr EXCEPT ![r] =
                     IF r \in WarnsOn(prog) THEN Append(@, Warning) ELSE @]
    /\ pc' = [pc EXCEPT ![r] = "read_parquet"]
    /\ UNCHANGED <<nprocs, NUM_ROWS, NUM_GROUPS, hash, prog, df, sent, inbox,
                   df2, contrib, contributed, m, ret, stdout, written,
                   notebookVars>>

\* df = pd.read_parquet("example1.pq")
ReadParquet(r) ==
    /\ r \in Procs
    /\ pc[r] = "read_parquet"
    /\ df' = [df EXCEPT ![r] = ReadParquetRows(prog, r)]
    /\ pc' = [pc EXCEPT ![r] = IF prog.body = "read" THEN "sink" ELSE "groupby"]
    /\ UNCHANGED <<nprocs, NUM_ROWS, NUM_GROUPS, hash, prog, sent, inbox, df2,
                   contrib, contributed, m, ret, stdout, stderr, written,
                   notebookVars>>

\* df.groupby("A"), distributed: send every row to the engine of its group
ShuffleSend(r) ==
    /\ r \in Procs
    /\ pc[r] = "groupby"
    /\ DfDist(prog) = "1D"
    /\ inbox' = [d \in Procs |->
                    inbox[d] \cup {x \in SeqToSet(df[r]) : ShuffleDest(x) = d}]
    /\ sent' = sent \cup {r}
    /\ pc' = [pc EXCEPT ![r] = "shuffle_recv"]
    /\ UNCHANGED <<nprocs, NUM_ROWS, NUM_GROUPS, hash, prog, df, df2, contrib,
                   contributed, m, ret, stdout, stderr, written,
                   notebookVars>>

\* .sum(), distributed: once every engine's buffer has arrived
GroupByRecv(r) ==
    /\ r \in Procs
    /\ pc[r] = "shuffle_recv"
    /\ sent = Procs
    /\ df2' = [df2 EXCEPT ![r] = GroupSums(inbox[r])]
    /\ pc' = [pc EXCEPT ![r] = AfterGroupBy(prog)]
    /\ UNCHANGED <<nprocs, NUM_ROWS, NUM_GROUPS, hash, prog, df, sent, inbox,
                   contrib, contributed, m, ret, stdout, stderr, written,
                   notebookVars>>

\* df.groupby("A").sum(), replicated: the sequential program on every engine
GroupByLocal(r) ==
    /\ r \in Procs
    /\ pc[r] = "groupby"
    /\ DfDist(prog) = "REP"
    /\ df2' = [df2 EXCEPT ![r] = GroupSums(SeqToSet(df[r]))]
    /\ pc' = [pc EXCEPT ![r] = AfterGroupBy(prog)]
    /\ UNCHANGED <<nprocs, NUM_ROWS, NUM_GROUPS, hash, prog, df, sent, inbox,
                   contrib, contributed, m, ret, stdout, stderr, written,
                   notebookVars>>

\* m = df2.B.max(): local max, contributed to the reduction
MaxSend(r) ==
    /\ r \in Procs
    /\ pc[r] = "max"
    /\ contrib' = [contrib EXCEPT ![r] = LocalMax(df2[r])]
    /\ contributed' = contributed \cup {r}
    /\ pc' = [pc EXCEPT ![r] = "allreduce"]
    /\ UNCHANGED <<nprocs, NUM_ROWS, NUM_GROUPS, hash, prog, df, sent, inbox,
                   df2, m, ret, stdout, stderr, written,
                   notebookVars>>

\* the reduction completes once every engine has contributed
Allreduce(r) ==
    /\ r \in Procs
    /\ pc[r] = "allreduce"
    /\ contributed = Procs
    /\ m' = [m EXCEPT ![r] = ReduceMax(contrib)]
    /\ pc' = [pc EXCEPT ![r] = IF prog.sink = "none" THEN "return" ELSE "sink"]
    /\ UNCHANGED <<nprocs, NUM_ROWS, NUM_GROUPS, hash, prog, df, sent, inbox,
                   df2, contrib, contributed, ret, stdout, stderr, written,
                   notebookVars>>

\* print(m) inside the jit function
JitPrint(r) ==
    /\ r \in Procs
    /\ pc[r] = "sink"
    /\ prog.sink = "print"
    /\ stdout' = [stdout EXCEPT ![r] =
                     IF r \in PrintsOn(MDist(prog)) THEN Append(@, m[r][1]) ELSE @]
    /\ pc' = [pc EXCEPT ![r] = AfterSink(prog)]
    /\ UNCHANGED <<nprocs, NUM_ROWS, NUM_GROUPS, hash, prog, df, sent, inbox,
                   df2, contrib, contributed, m, ret, stderr, written,
                   notebookVars>>

\* variant: parallel_print treated like print of a replicated value
ParallelPrintRoot(r) ==
    /\ r \in Procs
    /\ pc[r] = "sink"
    /\ prog.sink = "parallel_print"
    /\ stdout' = [stdout EXCEPT ![r] = IF r = 0 THEN Append(@, m[r][1]) ELSE @]
    /\ pc' = [pc EXCEPT ![r] = AfterSink(prog)]
    /\ UNCHANGED <<nprocs, NUM_ROWS, NUM_GROUPS, hash, prog, df, sent, inbox,
                   df2, contrib, contributed, m, ret, stderr, written,
                   notebookVars>>

\* bodo.parallel_print(m)
ParallelPrint(r) ==
    /\ r \in Procs
    /\ pc[r] = "sink"
    /\ prog.sink = "parallel_print"
    /\ stdout' = [stdout EXCEPT ![r] = Append(@, m[r][1])]
    /\ pc' = [pc EXCEPT ![r] = AfterSink(prog)]
    /\ UNCHANGED <<nprocs, NUM_ROWS, NUM_GROUPS, hash, prog, df, sent, inbox,
                   df2, contrib, contributed, m, ret, stderr, written,
                   notebookVars>>

\* print(df) inside the jit function
JitPrintDf(r) ==
    /\ r \in Procs
    /\ pc[r] = "sink"
    /\ prog.sink = "print_df"
    /\ stdout' = [stdout EXCEPT ![r] =
                     IF r \in PrintsOn(DfDist(prog)) THEN Append(@, df[r]) ELSE @]
    /\ pc' = [pc EXCEPT ![r] = AfterSink(prog)]
    /\ UNCHANGED <<nprocs, NUM_ROWS, NUM_GROUPS, hash, prog, df, sent, inbox,
                   df2, contrib, contributed, m, ret, stderr, written,
                   notebookVars>>

\* df2.to_parquet("example1-df2.pq"): every engine writes its part
ToParquet(r) ==
    /\ r \in Procs
    /\ pc[r] = "sink"
    /\ prog.sink = "to_parquet"
    /\ written' = [written EXCEPT ![r] = df2[r]]
    /\ pc' = [pc EXCEPT ![r] = AfterSink(prog)]
    /\ UNCHANGED <<nprocs, NUM_ROWS, NUM_GROUPS, hash, prog, df, sent, inbox,
                   df2, contrib, contributed, m, ret, stdout, stderr,
                   notebookVars>>

\* value of the returned variable on engine r
ReturnValue(p, r) ==
    IF p.returns = "m" THEN m[r]
    ELSE IF p.returns = "df2" THEN <<df2[r]>>
    ELSE <<>>

\* return from test()
JitReturn(r) ==
    /\ r \in Procs
    /\ pc[r] = "return"
    /\ ret' = [ret EXCEPT ![r] = ReturnValue(prog, r)]
    /\ pc' = [pc EXCEPT ![r] = AfterReturn(prog)]
    /\ UNCHANGED <<nprocs, NUM_ROWS, NUM_GROUPS, hash, prog, df, sent, inbox,
                   df2, contrib, contributed, m, stdout, stderr, written,
                   notebookVars>>

\* variant: the print after the call prints on engine 0 only
PyPrintRoot(r) ==
    /\ r \in Procs
    /\ pc[r] = "outside"
    /\ stdout' = [stdout EXCEPT ![r] = IF r = 0 THEN Append(@, ret[r][1]) ELSE @]
    /\ pc' = [pc EXCEPT ![r] = "done"]
    /\ UNCHANGED <<nprocs, NUM_ROWS, NUM_GROUPS, hash, prog, df, sent, inbox,
                   df2, contrib, contributed, m, ret, stderr, written,
                   notebookVars>>

\* print(m) / print(df2) after the call: regular Python, on every engine
PyPrint(r) ==
    /\ r \in Procs
    /\ pc[r] = "outside"
    /\ stdout' = [stdout EXCEPT ![r] = Append(@, ret[r][1])]
    /\ pc' = [pc EXCEPT ![r] = "done"]
    /\ UNCHANGED <<nprocs, NUM_ROWS, NUM_GROUPS, hash, prog, df, sent, inbox,
                   df2, contrib, contributed, m, ret, stderr, written,
                   notebookVars>>

Next ==
    \E r \in Ranks :
        \/ JitCall(r)
        \/ ReadParquet(r)
        \/ ShuffleSend(r)
        \/ GroupByRecv(r)
        \/ GroupByLocal(r)
        \/ MaxSend(r)
        \/ Allreduce(r)
        \/ JitPrint(r)
        \/ ParallelPrint(r)
        \/ JitPrintDf(r)
        \/ ToParquet(r)
        \/ JitReturn(r)
        \/ PyPrint(r)

Spec == Init /\ [][Next]_vars

AllDone == \A r \in Procs : pc[r] = "done"

----------------------------------------------------------------------------
(* The notebook: its code cells in document order, with the output kinds    *)
(* recorded in the file.  SpecNotebook runs them top to bottom; a cell that *)
(* defines a jit function binds its name in the namespace the cell runs in  *)
(* (the local kernel, or the engines for %%px cells, taken as one) and      *)
(* calls it once.  A bound function whose call returned may be called       *)
(* again.                                                                   *)

MaxExtraCalls == 2

PlainCell(line, count, recorded) ==
    [line |-> line, count |-> count, px |-> FALSE, recorded |-> recorded, jit |-> <<>>]

JitCell(line, count, px, recorded, p) ==
    [line |-> line, count |-> count, px |-> px, recorded |-> recorded, jit |-> <<p>>]

Cells == <<
    PlainCell(27, 1, {}),
    PlainCell(55, 2, {"stdout"}),
    PlainCell(103, 3, {"stdout"}),
    JitCell(133, 4, TRUE, {"stdout"}, CellPrint),
    JitCell(176, 5, TRUE, {"stdout"}, CellReturnM),
    JitCell(214, 6, TRUE, {"stdout"}, CellParallelPrint),
    JitCell(252, 7, TRUE, {"stdout"}, CellPrintDf),
    JitCell(362, 8, TRUE, {}, CellWrite),
    PlainCell(386, 9, {"stdout"}),
    JitCell(459, 10, TRUE, {"stdout", "stderr"}, CellReturnDf2),
    JitCell(643, 11, TRUE, {"stdout"}, CellReturnDf2Dist),
    PlainCell(727, 14, {"stdout"}),
    JitCell(762, 17, TRUE, {"stdout"}, CellTimed),
    PlainCell(812, 16, {"stdout"}),
    JitCell(844, 19, FALSE, {"stdout"}, CellUdf),
    JitCell(879, 17, TRUE, {"stdout"}, CellUdf),
    PlainCell(915, 20, {"stdout"}),
    JitCell(949, 21, FALSE, {"stdout"}, CellCalcPi),
    JitCell(982, 22, TRUE, {"stdout"}, CellCalcPi),
    JitCell(1022, 25, FALSE, {"error"}, CellFComputed),
    JitCell(1061, 26, FALSE, {"stderr", "execute_result"}, CellFArgument) >>

Namespace(c) == IF c.px THEN "engines" ELSE "local"

\* the arguments of the cells that call f: a = ["A", "B"], i = 1
FArgA == <<"A", "B">>
FArgI == 1

\* a[:i]
ColumnList == SubSeq(FArgA, 1, FArgI)

\* pd.DataFrame({"A": [1, 2, 1], "B": [4, 5, 6]})
InlineFrame ==
    {[idx |-> 0, A |-> 1, B |-> 4], [idx |-> 1, A |-> 2, B |-> 5],
     [idx |-> 2, A |-> 1, B |-> 6]}

\* df.groupby(column_list).sum() for a one-column key list
FrameGroupBy(rows, by) ==
    GroupSumsBy(rows, by[1], CHOOSE c \in {"A", "B"} : c # by[1])

\* variant: the key list of groupby is not required to be constant
GroupbyTypingLax(p) == "ok"

\* typing of groupby at compile time: the key list has to be a constant
GroupbyTyping(p) == IF p.by = "computed" THEN "BodoError" ELSE "ok"

\* variant: every call compiles
JitDispatchNoCache(p, tr) ==
    tr \o <<"compile", IF GroupbyTyping(p) = "ok" THEN "run" ELSE GroupbyTyping(p)>>

\* the jit dispatcher, on a call of a function with event history tr: the
\* function is compiled if it has not been, and then run
JitDispatch(p, tr) ==
    IF \E j \in 1 .. Len(tr) : tr[j] = "compile"
    THEN Append(tr, "run")
    ELSE tr \o <<"compile", IF GroupbyTyping(p) = "ok" THEN "run" ELSE GroupbyTyping(p)>>

LastEvent(tr) == tr[Len(tr)]

\* output kinds a cell's jit call gives (stdout left out), from its events
CallOutputs(p, tr) ==
    (IF LastEvent(tr) = "BodoError" THEN {"error"} ELSE {})
    \cup (IF LastEvent(tr) = "run" /\ NoParallelism(p) THEN {"stderr"} ELSE {})
    \cup (IF LastEvent(tr) = "run" /\ p.outside = "display" /\ p.returns # "none"
          THEN {"execute_result"} ELSE {})

\* the value the cell displays as its result
Displayed(p, tr) ==
    IF LastEvent(tr) = "run" /\ p.outside = "display" /\ p.body = "frame_groupby"
    THEN <<FrameGroupBy(InlineFrame, ColumnList)>>
    ELSE <<>>

\* the engine part of the state while the notebook is looked at as a whole
EnginesIdle ==
    /\ nprocs = 1
    /\ NUM_ROWS = 1
    /\ NUM_GROUPS = 1
    /\ hash = [k \in {0} |-> 0]
    /\ prog = CellPrint
    /\ pc = [r \in {0} |-> "idle"]
    /\ df = [r \in {0} |-> <<>>]
    /\ sent = {}
    /\ inbox = [r \in {0} |-> {}]
    /\ df2 = [r \in {0} |-> {}]
    /\ contrib = [r \in {0} |-> <<>>]
    /\ contributed = {}
    /\ m = [r \in {0} |-> <<>>]
    /\ ret = [r \in {0} |-> <<>>]
    /\ stdout = [r \in {0} |-> <<>>]
    /\ stderr = [r \in {0} |-> <<>>]
    /\ written = [r \in {0} |-> {}]

----------------------------------------------------------------------------
(* What each code cell needs and provides, in the order of Cells:           *)
(*   imports   module names its import statements bind (they come first)    *)
(*   uses      module names the cell's code refers to                       *)
(*   reads     files it reads with read_parquet                             *)
(*   writes    files it writes with to_parquet                              *)
(*   connects  whether it connects the ipyparallel Client to the engines    *)

Deps(imports, uses, reads, writes) ==
    [imports |-> imports, uses |-> uses, reads |-> reads, writes |-> writes,
     connects |-> FALSE]

CellDeps == <<
    [Deps({"ipp"}, {"ipp"}, {}, {}) EXCEPT !.connects = TRUE],
    Deps({"pd", "np"}, {"pd", "np"}, {}, {"example1.pq"}),
    Deps({}, {"pd"}, {"example1.pq"}, {}),
    Deps({"pd", "bodo"}, {"pd", "bodo"}, {"example1.pq"}, {}),
    Deps({}, {"pd", "bodo"}, {"example1.pq"}, {}),
    Deps({}, {"pd", "bodo"}, {"example1.pq"}, {}),
    Deps({}, {"pd", "bodo"}, {"example1.pq"}, {}),
    Deps({}, {"pd", "bodo"}, {"example1.pq"}, {"example1-df2.pq"}),
    Deps({"pd"}, {"pd"}, {"example1-df2.pq"}, {}),
    Deps({"pd", "bodo"}, {"pd", "bodo"}, {"example1.pq"}, {}),
    Deps({}, {"pd", "bodo"}, {"example1.pq"}, {}),
    Deps({"pd", "time"}, {"pd", "time"}, {"example1.pq"}, {}),
    Deps({"time"}, {"pd", "bodo", "time"}, {"example1.pq"}, {}),
    Deps({}, {"pd", "time"}, {"example1.pq"}, {}),
    Deps({"bodo"}, {"pd", "bodo", "time"}, {"example1.pq"}, {}),
    Deps({}, {"pd", "bodo", "time"}, {"example1.pq"}, {}),
    Deps({"np"}, {"np", "time"}, {}, {}),
    Deps({}, {"np", "bodo", "time"}, {}, {}),
    Deps({"np"}, {"np", "bodo", "time"}, {}, {}),
    Deps({"bodo"}, {"pd", "bodo"}, {}, {}),
    Deps({}, {"pd", "bodo"}, {}, {}) >>

\* line of the Environment Setup markdown cell, which has the engines started
SetupLine == 19

\* variant: a namespace holds only the imports of the cell run last
ImportReplacing(imp, ns, names) == [imp EXCEPT ![ns] = names]

\* import statements bind their names in the namespace the cell runs in
Import(imp, ns, names) == [imp EXCEPT ![ns] = @ \cup names]

\* what cell k uses and does not find, given the names imported, the files
\* written and the engines' state before it runs
Missing(k, imp, fs, eng) ==
    LET c == Cells[k]
        d == CellDeps[k]
    IN {<<k, n>> : n \in d.uses \ Import(imp, Namespace(c), d.imports)[Namespace(c)]}
       \cup {<<k, f>> : f \in d.reads \ fs}
       \cup (IF (c.px \/ d.connects) /\ ~eng THEN {<<k, "engines">>} ELSE {})

\* the part of a cell's run that concerns names, files and engines
RunDeps(k) ==
    /\ missing' = missing \cup Missing(k, imported, files, engines)
    /\ imported' = Import(imported, Namespace(Cells[k]), CellDeps[k].imports)
    /\ files' = files \cup CellDeps[k].writes
    /\ UNCHANGED engines

\* document order: a cell below the setup instructions runs after them
AfterSetup(k) == Cells[k].line > SetupLine => engines

\* the reader starts the MPI engines, as the Environment Setup cell says
StartEngines ==
    /\ ~engines
    /\ \A k \in 1 .. pos : Cells[k].line < SetupLine
    /\ engines' = TRUE
    /\ UNCHANGED <<pos, bound, trace, produced, shown, extra, imported, files,
                   missing, engineVars>>

InitNotebook == NotebookIdle /\ EnginesIdle

\* run the next code cell, one without a jit function
RunPlainCell ==
    /\ pos < Len(Cells)
    /\ Cells[pos + 1].jit = <<>>
    /\ AfterSetup(pos + 1)
    /\ RunDeps(pos + 1)
    /\ pos' = pos + 1
    /\ trace' = Append(trace, <<>>)
    /\ produced' = Append(produced, {})
    /\ shown' = Append(shown, <<>>)
    /\ UNCHANGED <<bound, extra, engineVars>>

\* run the next code cell, one that defines a jit function and calls it
RunJitCell ==
    /\ pos < Len(Cells)
    /\ Cells[pos + 1].jit # <<>>
    /\ AfterSetup(pos + 1)
    /\ RunDeps(pos + 1)
    /\ LET c == Cells[pos + 1]
           p == c.jit[1]
           tr == JitDispatch(p, <<>>)
       IN /\ bound' = [bound EXCEPT ![Namespace(c)][p.name] = pos + 1]
          /\ trace' = Append(trace, tr)
          /\ produced' = Append(produced, CallOutputs(p, tr))
          /\ shown' = Append(shown, Displayed(p, tr))
    /\ pos' = pos + 1
    /\ UNCHANGED <<extra, engineVars>>

\* call the function a name is bound to once more
CallAgain(ns, name) ==
    /\ extra < MaxExtraCalls
    /\ bound[ns][name] # 0
    /\ LastEvent(trace[bound[ns][name]]) = "run"
    /\ trace' = [trace EXCEPT ![bound[ns][name]] =
                    JitDispatch(Cells[bound[ns][name]].jit[1], @)]
    /\ extra' = extra + 1
    /\ UNCHANGED <<pos, bound, produced, shown, imported, files, engines,
                   missing, engineVars>>

NextNotebook ==
    \/ StartEngines
    \/ RunPlainCell
    \/ RunJitCell
    \/ \E ns \in {"local", "engines"} : \E name \in {"test", "calc_pi", "f"} :
          CallAgain(ns, name)

SpecNotebook == InitNotebook /\ [][NextNotebook]_vars

----------------------------------------------------------------------------
(* Properties of one %%px cell run on the engines (Spec).                   *)

HasRead(r) == pc[r] \notin {"call", "read_parquet"}

Grouped(r) ==
    /\ prog.body \in {"groupby", "max"}
    /\ pc[r] \in {"max", "allreduce", "sink", "return", "outside", "done"}

Reduced(r) ==
    /\ prog.body = "max"
    /\ pc[r] \in {"sink", "return", "outside", "done"}

Returned(r) == pc[r] \in {"outside", "done"}

\* the sequential groupby result, as a set of <<key, sum>>
PandasFrame == FrameRows(PandasGroupBy(Dataset))

\* the engines' chunks, concatenated in rank order
RECURSIVE ConcatChunks(_)
ConcatChunks(r) == IF r >= nprocs THEN <<>> ELSE df[r] \o ConcatChunks(r + 1)

\* C1: the max computed by the jit `test` on nprocs engines (chunked read,
\* shuffle by key, per-group sums, max reduction) is the value the sequential
\* pandas `test` computes over the whole dataset, wherever it is held,
\* printed or returned.
ParallelMatchesPandas ==
    prog.body = "max" =>
        \A r \in Procs :
            /\ Reduced(r) => m[r] = <<PandasTest>>
            /\ \A k \in 1 .. Len(stdout[r]) : stdout[r][k] = PandasTest
            /\ (prog.returns = "m" /\ Returned(r)) => ret[r] = <<PandasTest>>

C1Witness ==
    /\ AllDone
    /\ prog = CellPrint
    /\ nprocs >= 2
    /\ stdout[0] = <<PandasTest>>
    /\ \E r, s \in Procs : r # s /\ df2[r] # {} /\ df2[s] # {}
    /\ \E d \in Procs : \E x, y \in inbox[d] :
          /\ x.A = y.A
          /\ \E r, s \in Procs : r # s /\ x \in SeqToSet(df[r]) /\ y \in SeqToSet(df[s])

\* C2: in a parallel read the chunks of the engines are pairwise disjoint and,
\* once all engines have read, hold every row of the dataset exactly once.
ParallelReadPartitions ==
    DfDist(prog) = "1D" =>
        /\ \A r, s \in Procs :
              (r # s /\ HasRead(r) /\ HasRead(s)) =>
                  SeqToSet(df[r]) \cap SeqToSet(df[s]) = {}
        /\ \A r \in Procs : HasRead(r) => SeqToSet(df[r]) \subseteq SeqToSet(Dataset)
        /\ (\A r \in Procs : HasRead(r)) => ConcatChunks(0) = Dataset

C2Witness ==
    /\ AllDone
    /\ prog = CellPrintDf
    /\ nprocs >= 2
    /\ NUM_ROWS % nprocs # 0
    /\ \A r \in Procs : df[r] # <<>> /\ stdout[r] = <<df[r]>>

\* C3: after the groupby shuffle all rows of one group are on one engine: no
\* key is held by two engines, and once all engines have aggregated every
\* group appears exactly once, with the sum over all of its rows.
GroupsNotSplit ==
    (prog.body \in {"groupby", "max"} /\ Df2Dist(prog) = "1D") =>
        /\ \A r, s \in Procs :
              r # s => /\ {x.A : x \in inbox[r]} \cap {x.A : x \in inbox[s]} = {}
                       /\ Keys(df2[r]) \cap Keys(df2[s]) = {}
        /\ (\A r \in Procs : Grouped(r)) =>
              /\ UNION {df2[r] : r \in Procs} = PandasFrame
              /\ \A k \in Keys(PandasFrame) :
                    Cardinality({r \in Procs : k \in Keys(df2[r])}) = 1

C3Witness ==
    /\ AllDone
    /\ prog = CellReturnDf2Dist
    /\ nprocs >= 2
    /\ \E r, s \in Procs : r # s /\ df2[r] # {} /\ df2[s] # {}
    /\ \E d \in Procs : \E x, y \in inbox[d] :
          /\ x.A = y.A
          /\ \E r, s \in Procs : r # s /\ x \in SeqToSet(df[r]) /\ y \in SeqToSet(df[s])
    /\ \A r \in Procs : stdout[r] = <<df2[r]>>

\* C4: print of the replicated m inside the jit function prints exactly once,
\* on engine 0; no other engine prints.
ReplicatedPrintOnce ==
    prog.sink = "print" =>
        /\ \A r \in Procs \ {0} : stdout[r] = <<>>
        /\ Len(stdout[0]) = (IF pc[0] \in {"return", "done"} THEN 1 ELSE 0)
        /\ AllDone => stdout[0] = m[0]

C4Witness ==
    /\ AllDone
    /\ prog = CellPrint
    /\ nprocs >= 3
    /\ Len(stdout[0]) = 1
    /\ \A r \in Procs \ {0} : stdout[r] = <<>> /\ m[r] = m[0]

\* C5: the print after the call, outside the jit function, runs on every
\* engine: nprocs prints, one per engine, and for m = test(); print(m) every
\* engine prints the same value.
OutsidePrintOnAll ==
    prog.outside = "print" =>
        /\ \A r \in Procs : Len(stdout[r]) = (IF pc[r] = "done" THEN 1 ELSE 0)
        /\ (prog = CellReturnM /\ AllDone) =>
              \A r \in Procs : stdout[r] = stdout[0] /\ stdout[r] = ret[r]

C5Witness ==
    /\ AllDone
    /\ prog = CellReturnM
    /\ nprocs >= 3
    /\ \A r \in Procs : stdout[r] = <<PandasTest>>

\* C6: bodo.parallel_print(m) inside the jit function prints on every engine,
\* once per engine, whereas print(m) leaves output on one engine only.
ParallelPrintOnAll ==
    /\ prog.sink = "parallel_print" =>
          \A r \in Procs :
              stdout[r] = (IF pc[r] \in {"return", "done"} THEN m[r] ELSE <<>>)
    /\ (prog.sink = "print" /\ AllDone) =>
          Cardinality({r \in Procs : stdout[r] # <<>>}) = 1

C6Witness ==
    /\ AllDone
    /\ prog = CellParallelPrint
    /\ nprocs >= 3
    /\ \A r \in Procs : Len(stdout[r]) = 1 /\ stdout[r] = m[r]

\* C7: a value returned without the distributed flag is replicated: every
\* engine returns the same, complete result (for df2: all groups, with the
\* sequential sums).
ReplicatedReturn ==
    (prog.returns # "none" /\ prog.returns \notin prog.distributed) =>
        \A r \in Procs :
            Returned(r) =>
                ret[r] = (IF prog.returns = "df2" THEN <<PandasFrame>>
                                                  ELSE <<PandasTest>>)

C7Witness ==
    /\ AllDone
    /\ prog = CellReturnDf2
    /\ nprocs >= 3
    /\ Cardinality(PandasFrame) >= 2
    /\ \A r \in Procs : ret[r] = <<PandasFrame>> /\ stdout[r] = ret[r]

\* C8: when the returned df2 is replicated, so is df, which df2 is computed
\* from: every engine reads the whole file, nothing is shuffled or reduced
\* between engines, every engine computes the complete groupby, and the
\* 'No parallelism found' warning is emitted.
ReplicatedReturnCascades ==
    (prog.returns = "df2" /\ "df2" \notin prog.distributed) =>
        /\ DfDist(prog) = "REP"
        /\ \A r \in Procs : HasRead(r) => df[r] = Dataset
        /\ \A r \in Procs : Grouped(r) => df2[r] = PandasFrame
        /\ sent = {} /\ contributed = {}
        /\ \A r \in Procs : inbox[r] = {}
        /\ pc[0] # "call" => stderr[0] = <<Warning>>

C8Witness ==
    /\ AllDone
    /\ prog = CellReturnDf2
    /\ nprocs >= 2
    /\ NUM_ROWS >= 2
    /\ \A r \in Procs : df[r] = Dataset
    /\ stderr[0] = <<Warning>>

----------------------------------------------------------------------------
(* Properties of the notebook run (SpecNotebook).                           *)

JitCellsRun == {k \in 1 .. pos : Cells[k].jit # <<>>}

\* the kinds CallOutputs gives agree with the kinds recorded in the file
ProducedMatchesRecorded ==
    \A k \in 1 .. pos : produced[k] = Cells[k].recorded \ {"stdout"}

GroupbyKeysMustBeConstant ==
    \A k \in 1 .. pos :
        /\ (Cells[k].jit # <<>> /\ Cells[k].jit[1].by = "computed") =>
              /\ trace[k] = <<"compile", "BodoError">>
              /\ shown[k] = <<>>
              /\ produced[k] = {"error"}
        /\ "error" \in Cells[k].recorded <=> Cells[k].jit = <<CellFComputed>>
        /\ "error" \in produced[k] <=> "error" \in Cells[k].recorded

C10Witness ==
    /\ pos = Len(Cells)
    /\ Cardinality({k \in 1 .. pos : "error" \in produced[k]}) = 1
    /\ \E k \in 1 .. pos :
          /\ Cells[k].jit = <<CellFComputed>>
          /\ trace[k] = <<"compile", "BodoError">>
    /\ \E k \in 1 .. pos :
          /\ Cells[k].jit = <<CellFArgument>>
          /\ shown[k] = <<{<<1, 10>>, <<2, 5>>}>>

\* C11: with the code cells run in document order, every module name a cell
\* uses has been imported in the namespace the cell runs in (the local kernel,
\* or the engines for %%px cells; an import in one is not seen in the other),
\* every file a cell reads has been written by a cell above it, and the
\* engines are started before the Client connects or a %%px cell runs.
NothingUsedBeforeDefined ==
    /\ missing = {}
    /\ \A ns \in {"local", "engines"} : \A n \in imported[ns] :
          \E k \in 1 .. pos : Namespace(Cells[k]) = ns /\ n \in CellDeps[k].imports
    /\ \A k \in 1 .. pos :
          /\ CellDeps[k].uses \subseteq imported[Namespace(Cells[k])]
          /\ CellDeps[k].reads \subseteq files
          /\ (Cells[k].px \/ CellDeps[k].connects) => engines
    /\ \A f \in files : \E k \in 1 .. pos : f \in CellDeps[k].writes

C11Witness ==
    /\ pos = Len(Cells)
    /\ missing = {}
    /\ engines
    /\ imported = [local |-> {"ipp", "pd", "np", "time", "bodo"},
                   engines |-> {"pd", "bodo", "time", "np"}]
    /\ files = {"example1.pq", "example1-df2.pq"}

\* C12: the recorded execution counts of the code cells strictly increase in
\* document order: of any two cells run, the upper one has the smaller count.
ExecutionCountsIncrease ==
    \A j, k \in 1 .. pos : j < k => Cells[j].count < Cells[k].count

====
